---- MODULE Spec2Model ----
(***************************************************************************)
(* Client-side real-time synchronisation of the tickets dashboard:         *)
(*   - the useWebSocket hook (src/hooks/useWebSocket.ts): the channel, its *)
(*     open / message / close handlers, the reconnect timer, connect(),    *)
(*     disconnect() and the effect that ties them to the render cycle;     *)
(*   - the dashboard page (src/unnamed/part_000): the ticket list, the     *)
(*     initial load and the onMessage callback that merges envelopes.      *)
(*                                                                         *)
(* React is modelled by what the code relies on: a state setter changes    *)
(* the stored value at once, the component function runs again later       *)
(* (Render) when a stored value differs from the rendered one, callbacks   *)
(* created by a render see the values of that render, and an effect whose  *)
(* dependencies changed runs its previous cleanup and then its body.       *)
(***************************************************************************)
EXTENDS Integers, Sequences, FiniteSets, TLC

\* ---------------------------------------------------------------- bounds
\* The option maxReconnectAttempts of the hook (default 5), instantiated
\* small so that a channel created with an exhausted budget, and what
\* happens to it afterwards, is within reach of the channel bound.
maxReconnectAttempts == 1
\* WebSocket objects created during one run.
MaxChannels == 4
\* Length of the ticket list (TICKET_CREATED grows it without limit).
MaxTickets == 3
\* Ticket identifiers in play.
NumIds == 2
\* Requests of axiosInstance that wait for their response at one time.
MaxRequests == 2

\* ------------------------------------------------------------ data model
Ids == 1..NumIds
\* Two versions of a ticket's mutable fields, as in "A" updated to "A2".
Subjects == {"A", "A2"}

\* A Ticket: the identifier and its mutable fields (one stands for all).
Ticket == [id : Ids, subject : Subjects]

\* A WebSocketMessage: the tag and either a full Ticket or a bare { id }.
WebSocketMessage ==
    [type : {"TICKET_CREATED", "TICKET_UPDATED"}, data : Ticket]
        \cup [type : {"TICKET_DELETED"}, data : [id : Ids]]

\* The value of message.data when the frame has no "data" member.
Undefined == [undefined |-> TRUE]

\* What JSON.parse can also hand to onMessage, nothing checks the result:
\* an unknown tag, or a known tag without data.
MalformedMessage ==
    [type : {"UNKNOWN"}, data : Ticket]
        \cup [type : {"TICKET_CREATED", "TICKET_UPDATED", "TICKET_DELETED"},
              data : {Undefined}]

\* The enumerations of types/ticket.ts. A Ticket of this model stands for a
\* record whose status and priority are inside them; a record that arrives
\* with a value outside carries the two fields explicitly.
TicketStatus == {"open", "in-progress", "resolved", "closed"}
TicketPriority == {"low", "medium", "high", "urgent"}

\* Envelopes whose record has a status or a priority outside the
\* enumerations: types are erased at run time, JSON.parse returns them like
\* any other object.
OutOfEnumMessage ==
    [type : {"TICKET_CREATED", "TICKET_UPDATED"},
     data : {[id |-> 1, subject |-> "A", status |-> "archived", priority |-> "low"],
             [id |-> 1, subject |-> "A", status |-> "open", priority |-> "critical"]}]

\* Value of lastMessage before any envelope was applied.
NoMessage == [type |-> "NONE"]

\* localStorage.getItem returns null when the item is not stored.
NoToken == "null"
\* The token the login page stored before the dashboard was opened.
Tokens == {"t1"}
\* Values of lastRequest and lastError before any request was sent.
NoRequest == [authorization |-> <<"no request yet">>]
\* The Authorization header is a string in parts, or is not set.
NoHeader == <<>>
NoError == [status |-> "none yet", rejected |-> FALSE]
\* The status of a failed response; "no response" when the request timed
\* out or the network failed (error.response is undefined).
ResponseStatus == {"400", "401", "403", "404", "500", "no response"}

\* The frame "null": JSON.parse returns null, and the dashboard's onMessage
\* throws a TypeError when it reads message.type.
NullMessage == [type |-> "null"]

\* Value of lastThrow before any onMessage call threw.
NoThrow == [channel |-> 0, escaped |-> FALSE]

\* selectedTicket = null.
NoTicket == [id |-> 0, subject |-> ""]

\* The form as useState creates it and as resetForm leaves it; of the four
\* fields the two required ones are kept.
resetForm == [subject |-> "", description |-> ""]

\* What the user can type into the two required fields.
FormData == [subject : {"", "A2"}, description : {"", "text"}]

\* error.response?.data?.message of a failed request: no such member, an
\* empty string, or a text of the server.
NoField == "undefined"
ResponseMessage == {NoField, "", "Ticket not found"}

\* The tickets page as its first render creates it.
NewTicketsPage ==
    [mounted |-> TRUE, tickets |-> <<>>, isLoading |-> TRUE, error |-> "",
     selectedTicket |-> NoTicket, formData |-> resetForm,
     isSubmitting |-> FALSE, calls |-> <<>>]

\* Value of lastSend before sendMessage was called.
NoSend == [did |-> "none", ready |-> "null"]

\* Value of trip while the last envelopes are no created-updated-deleted run.
NoTrip == [step |-> 0, base |-> <<>>]

VARIABLES
    mounted,             \* the dashboard component is mounted
    isConnected,         \* useState(false): stored value
    reconnectAttempts,   \* useState(0): stored value
    renderedConnected,   \* isConnected as seen by the last render
    renderedAttempts,    \* reconnectAttempts as seen by the last render
    renderPending,       \* a state object (tickets, isLoading, error) was replaced
    channels,            \* every WebSocket the hook created, in creation order
    wsRef,               \* wsRef.current: index into channels, 0 = null
    reconnectTimeoutRef, \* reconnectTimeoutRef.current: channel whose close
                         \* handler set the timer stored last, 0 = undefined
    tickets,             \* useState<Ticket[]>([]) of the dashboard
    isLoading,           \* useState(true) of the dashboard
    prevTickets,         \* history: tickets before the last applied envelope
    lastMessage,         \* history: the last envelope given to onMessage
    trip,                \* history: how far the last envelopes got through
                         \* created X, updated X, deleted X, and the list
                         \* the created envelope met
    stopped,             \* history: disconnect() was called (explicitly or by
                         \* the unmount cleanup) and connect() was not called
                         \* explicitly since
    WS_URL,              \* process.env.NEXT_PUBLIC_WS_URL of the build,
                         \* "" = not set
    lastSend,            \* history: what the last sendMessage call did and
                         \* the readyState it found in wsRef
    firstRun,            \* history: what the onMessage switch made of each
                         \* list and envelope when the page was mounted
    authToken,           \* localStorage item "auth_token"
    location,            \* window.location.href / the route of the router
    requests,            \* the headers of the requests axiosInstance sent
                         \* that wait for their response
    lastRequest,         \* the headers of the last request axiosInstance sent
    lastError,           \* the last failed response and what the response
                         \* interceptor returned for it
    errorEvent,          \* history: the channel whose error event ws.onerror
                         \* handled last (onError called with it), 0 = none
    lastThrow,           \* history: the channel whose ws.onmessage last called
                         \* an onMessage that threw, and whether the
                         \* exception left the handler
    TicketsPage          \* the tickets management page: whether it is
                         \* mounted, its useState values (tickets, isLoading,
                         \* error, selectedTicket, formData, isSubmitting) and
                         \* the ticketsApi calls its handlers are awaiting,
                         \* in the order of the requests they sent

hookVars == <<mounted, isConnected, reconnectAttempts, renderedConnected,
              renderedAttempts, channels, wsRef, reconnectTimeoutRef>>
pageVars == <<tickets, isLoading, prevTickets, lastMessage, trip>>
authVars == <<authToken, location, requests, lastRequest, lastError>>
ioVars == <<WS_URL, lastSend, firstRun, authVars, errorEvent, lastThrow,
            TicketsPage>>
vars == <<hookVars, pageVars, renderPending, stopped, ioVars>>

\* ------------------------------------------------------------ reconciler
HasId(list, id) == \E i \in 1..Len(list) : list[i].id = id

\* case "TICKET_CREATED": setTickets((prev) => [message.data, ...prev])
TicketCreated(prev, data) == <<data>> \o prev

\* Faulty variant: the updated record is moved to the front instead of staying put.
TicketUpdatedMoved(prev, data) ==
    IF HasId(prev, data.id)
    THEN <<data>> \o SelectSeq(prev, LAMBDA t : t.id # data.id)
    ELSE prev

\* Faulty variant: an update of an unknown id is appended (upsert at the end).
TicketUpdatedUpsert(prev, data) ==
    IF HasId(prev, data.id)
    THEN [i \in 1..Len(prev) |-> IF prev[i].id = data.id THEN data ELSE prev[i]]
    ELSE Append(prev, data)

\* Faulty variant: map without the id test's else branch, every record is replaced.
TicketUpdatedAll(prev, data) == [i \in 1..Len(prev) |-> data]

\* case "TICKET_UPDATED": prev.map((ticket) => ticket.id === data.id ? data : ticket)
TicketUpdated(prev, data) ==
    [i \in 1..Len(prev) |-> IF prev[i].id = data.id THEN data ELSE prev[i]]

\* Faulty variant: only the first record with the id is removed.
TicketDeletedFirst(prev, data) ==
    IF HasId(prev, data.id)
    THEN LET k == CHOOSE i \in 1..Len(prev) :
                      /\ prev[i].id = data.id
                      /\ \A j \in 1..(i - 1) : prev[j].id # data.id
         IN SubSeq(prev, 1, k - 1) \o SubSeq(prev, k + 1, Len(prev))
    ELSE prev

\* Faulty variant: the filter keeps the records with the id (=== for !==).
TicketDeletedInverted(prev, data) == SelectSeq(prev, LAMBDA t : t.id = data.id)

\* case "TICKET_DELETED": prev.filter((ticket) => ticket.id !== data.id)
TicketDeleted(prev, data) == SelectSeq(prev, LAMBDA t : t.id # data.id)

\* Faulty variant: the switch without its TICKET_DELETED case.
onMessageNoDeleted(prev, message) ==
    CASE message.type = "TICKET_CREATED" -> TicketCreated(prev, message.data)
      [] message.type = "TICKET_UPDATED" -> TicketUpdated(prev, message.data)
      [] OTHER -> prev

\* Faulty variant: the switch reads the connection status and skips the
\* envelope while the hook is not connected.
onMessageWhenConnected(prev, message) ==
    IF isConnected
    THEN CASE message.type = "TICKET_CREATED" -> TicketCreated(prev, message.data)
           [] message.type = "TICKET_UPDATED" -> TicketUpdated(prev, message.data)
           [] message.type = "TICKET_DELETED" -> TicketDeleted(prev, message.data)
           [] OTHER -> prev
    ELSE prev

\* The switch of the dashboard's onMessage callback.
onMessage(prev, message) ==
    CASE message.type = "TICKET_CREATED" -> TicketCreated(prev, message.data)
      [] message.type = "TICKET_UPDATED" -> TicketUpdated(prev, message.data)
      [] message.type = "TICKET_DELETED" -> TicketDeleted(prev, message.data)
      [] OTHER -> prev

\* ------------------------------------------------------ connection manager
\* The refs and state of the hook as one value, so that connect() and
\* disconnect() can be composed inside one handler (the effect runs both).
HookState ==
    [channels |-> channels, wsRef |-> wsRef,
     reconnectTimeoutRef |-> reconnectTimeoutRef, isConnected |-> isConnected]

\* new WebSocket(WS_URL) inside a connect callback created by a render that
\* saw reconnectAttempts = attempts; its handlers close over that value.
NewChannel(attempts) ==
    [readyState |-> "CONNECTING", attempts |-> attempts, timer |-> "none"]

\* Faulty variant: connect() without the test of WS_URL.
connectNoUrlCheck(h, attempts) ==
    [h EXCEPT !.channels = Append(@, NewChannel(attempts)),
              !.wsRef = Len(h.channels) + 1]

\* connect(): without WS_URL the throw is caught inside connect and nothing
\* else runs; otherwise it creates a channel and stores it in wsRef, with
\* no check of an existing channel.
connect(h, attempts) ==
    IF WS_URL = ""
    THEN h
    ELSE [h EXCEPT !.channels = Append(@, NewChannel(attempts)),
                   !.wsRef = Len(h.channels) + 1]

\* clearTimeout(id): cancels the timer when it has not fired yet.
clearTimeout(chs, t) ==
    IF t # 0 /\ chs[t].timer = "pending"
    THEN [chs EXCEPT ![t].timer = "cleared"]
    ELSE chs

\* WebSocket.close(): a connecting or open channel starts closing; its
\* close event (and the onclose handler) follows later.
close(chs, w) ==
    IF chs[w].readyState \in {"CONNECTING", "OPEN"}
    THEN [chs EXCEPT ![w].readyState = "CLOSING"]
    ELSE chs

\* setState of a mounted component stores the value; after unmount React
\* drops the update.
SetState(old, new) == IF mounted THEN new ELSE old

\* disconnect(): clear the timer held in reconnectTimeoutRef, close and
\* forget the channel held in wsRef, setIsConnected(false).
disconnect(h) ==
    LET cleared == clearTimeout(h.channels, h.reconnectTimeoutRef)
        closed == IF h.wsRef # 0 THEN close(cleared, h.wsRef) ELSE cleared
    IN [h EXCEPT !.channels = closed,
                 !.wsRef = 0,
                 !.isConnected = SetState(@, FALSE)]

\* The body of ws.onclose of channel c, whose closure holds
\* reconnectAttempts = channels[c].attempts: setIsConnected(false), then a
\* reconnect timer when that value is below maxReconnectAttempts.
onclose(h, c) ==
    IF h.channels[c].attempts < maxReconnectAttempts
    THEN [h EXCEPT !.channels[c].readyState = "CLOSED",
                   !.channels[c].timer = "pending",
                   !.reconnectTimeoutRef = c,
                   !.isConnected = SetState(@, FALSE)]
    ELSE [h EXCEPT !.channels[c].readyState = "CLOSED",
                   !.isConnected = SetState(@, FALSE)]

\* Faulty variant: the error handler treats the error as the end of the
\* connection and calls setIsConnected(false).
onerrorDisconnects(h, c) == [h EXCEPT !.isConnected = SetState(@, FALSE)]

\* The body of ws.onerror of channel c: console.error and onError?.(error);
\* it writes no state and no ref of the hook.
onerror(h, c) == h

\* wsRef.current?.readyState
readyState(h) ==
    IF h.wsRef = 0 THEN "null" ELSE h.channels[h.wsRef].readyState

\* Faulty variant: sends on whatever channel wsRef holds.
sendMessageAnyChannel(h) == IF h.wsRef # 0 THEN "sent" ELSE "warned"

\* sendMessage(message): ws.send when the channel in wsRef is OPEN, else
\* console.warn.
sendMessage(h) == IF readyState(h) = "OPEN" THEN "sent" ELSE "warned"

Install(h) ==
    /\ channels' = h.channels
    /\ wsRef' = h.wsRef
    /\ reconnectTimeoutRef' = h.reconnectTimeoutRef
    /\ isConnected' = h.isConnected

IsDuplicateFree(list) ==
    \A i, j \in 1..Len(list) : list[i].id = list[j].id => i = j

\* The lists GET /api/tickets can answer with: unique by id.
ServerLists ==
    {l \in UNION {[1..n -> Ticket] : n \in 0..NumIds} : IsDuplicateFree(l)}

\* Where the channel itself runs, the remote source speaks of one ticket;
\* the specification of the ticket list alone draws from all envelopes.
LiveMessages ==
    {m \in WebSocketMessage :
        m.data.id = 1 /\ (m.type # "TICKET_DELETED" => m.data.subject = "A")}

Init ==
    /\ mounted = TRUE
    /\ isConnected = FALSE
    /\ reconnectAttempts = 0
    /\ renderedConnected = FALSE
    /\ renderedAttempts = 0
    /\ renderPending = FALSE
    /\ WS_URL \in {"", "ws://host/ws"}
    /\ LET h == connect([channels |-> <<>>, wsRef |-> 0,
                         reconnectTimeoutRef |-> 0, isConnected |-> FALSE], 0)
       IN /\ channels = h.channels
          /\ wsRef = h.wsRef
    /\ reconnectTimeoutRef = 0
    /\ lastSend = NoSend
    /\ authToken \in Tokens
    /\ location = "/dashboard"
    /\ requests = <<>>
    /\ lastRequest = NoRequest
    /\ lastError = NoError
    /\ errorEvent = 0
    /\ lastThrow = NoThrow
    /\ TicketsPage = [NewTicketsPage EXCEPT !.mounted = FALSE]
    /\ firstRun = [l \in ServerLists, m \in LiveMessages |-> onMessage(l, m)]
    /\ tickets = <<>>
    /\ isLoading = TRUE
    /\ prevTickets = <<>>
    /\ lastMessage = NoMessage
    /\ trip = NoTrip
    /\ stopped = FALSE

\* ws.onopen of channel c.
WsOnOpen(c) ==
    /\ channels[c].readyState = "CONNECTING"
    /\ channels' = [channels EXCEPT ![c].readyState = "OPEN"]
    /\ isConnected' = SetState(isConnected, TRUE)
    /\ reconnectAttempts' = SetState(reconnectAttempts, 0)
    /\ UNCHANGED <<mounted, renderedConnected, renderedAttempts, wsRef,
                   reconnectTimeoutRef, pageVars, renderPending, stopped, ioVars>>

\* The close event of channel c and its ws.onclose handler.
CloseEvent(c) ==
    /\ Install(onclose(HookState, c))
    /\ UNCHANGED <<mounted, reconnectAttempts, renderedConnected,
                   renderedAttempts, pageVars, renderPending, stopped, ioVars>>

\* The connection fails or the remote side closes it (abrupt close).
WsAbruptClose(c) ==
    /\ channels[c].readyState \in {"CONNECTING", "OPEN"}
    /\ CloseEvent(c)

\* The close event that ends a close started by disconnect().
WsClosed(c) ==
    /\ channels[c].readyState = "CLOSING"
    /\ CloseEvent(c)

\* The error event of channel c and its ws.onerror handler. The browser
\* fires it on a channel that is connecting or open, before the close event.
WsOnError(c) ==
    /\ channels[c].readyState \in {"CONNECTING", "OPEN"}
    /\ Install(onerror(HookState, c))
    /\ errorEvent' = c
    /\ UNCHANGED <<mounted, reconnectAttempts, renderedConnected,
                   renderedAttempts, pageVars, renderPending, stopped, WS_URL,
                   lastSend, firstRun, authVars, lastThrow, TicketsPage>>

\* A stored value differs from the rendered one: React has a render scheduled.
RenderDue ==
    /\ mounted
    /\ \/ isConnected # renderedConnected
       \/ reconnectAttempts # renderedAttempts
       \/ renderPending

\* The setTimeout callback scheduled by the close handler of channel c:
\* setReconnectAttempts((prev) => prev + 1); connect() of the same closure.
\* It runs reconnectInterval (3000 ms) after the close, so a render that is
\* already scheduled runs first; channel events may come before the render.
ReconnectTimer(c) ==
    /\ channels[c].timer = "pending"
    /\ ~RenderDue
    /\ Len(channels) < MaxChannels
    /\ reconnectAttempts' = SetState(reconnectAttempts, reconnectAttempts + 1)
    /\ Install(connect([HookState EXCEPT !.channels[c].timer = "fired"],
                       channels[c].attempts))
    /\ UNCHANGED <<mounted, renderedConnected, renderedAttempts, pageVars,
                   renderPending, stopped, ioVars>>

\* The component function runs again. onMessage is an inline function of the
\* dashboard, so connect is a new callback on every render and the effect
\* [connect, disconnect] runs: cleanup of the previous effect (disconnect),
\* then connect() of this render.
Render ==
    /\ RenderDue
    /\ Len(channels) < MaxChannels
    /\ renderedConnected' = isConnected
    /\ renderedAttempts' = reconnectAttempts
    /\ renderPending' = FALSE
    /\ Install(connect(disconnect(HookState), reconnectAttempts))
    /\ UNCHANGED <<mounted, reconnectAttempts, pageVars, stopped, ioVars>>

\* The consumer calls the returned `reconnect` (connect of the last render).
Reconnect ==
    /\ mounted
    /\ Len(channels) < MaxChannels
    /\ Install(connect(HookState, renderedAttempts))
    /\ stopped' = FALSE
    /\ UNCHANGED <<mounted, reconnectAttempts, renderedConnected,
                   renderedAttempts, pageVars, renderPending, ioVars>>

\* The consumer calls the returned `disconnect`.
Disconnect ==
    /\ mounted
    /\ Install(disconnect(HookState))
    /\ stopped' = TRUE
    /\ UNCHANGED <<mounted, reconnectAttempts, renderedConnected,
                   renderedAttempts, pageVars, renderPending, ioVars>>

\* The consumer calls the returned `sendMessage`.
SendMessage ==
    /\ mounted
    /\ lastSend' = [did |-> sendMessage(HookState),
                    ready |-> readyState(HookState)]
    /\ UNCHANGED <<hookVars, pageVars, renderPending, stopped, WS_URL,
                   firstRun, authVars, errorEvent, lastThrow,
                   TicketsPage>>

\* The oldest WebSocket is closed, has no pending timer and is held by no
\* ref: none of its handlers can run again and the object is collected.
\* The refs keep pointing at the same objects.
Collect ==
    /\ Len(channels) > 1
    /\ channels[1].readyState = "CLOSED"
    /\ channels[1].timer # "pending"
    /\ wsRef # 1
    /\ reconnectTimeoutRef # 1
    /\ channels' = Tail(channels)
    /\ wsRef' = IF wsRef = 0 THEN 0 ELSE wsRef - 1
    /\ reconnectTimeoutRef' =
           IF reconnectTimeoutRef = 0 THEN 0 ELSE reconnectTimeoutRef - 1
    /\ UNCHANGED <<mounted, isConnected, reconnectAttempts, renderedConnected,
                   renderedAttempts, pageVars, renderPending, stopped, ioVars>>

\* The component unmounts: the effect cleanup calls disconnect().
Unmount ==
    /\ mounted
    /\ mounted' = FALSE
    /\ Install(disconnect(HookState))
    /\ stopped' = TRUE
    /\ UNCHANGED <<reconnectAttempts, renderedConnected, renderedAttempts,
                   pageVars, renderPending, ioVars>>

\* -------------------------------------------------------------- dashboard
\* The run created X, updated X, deleted X after envelope m: a created
\* envelope starts a run on the list it meets, the next step of the run for
\* the same id continues it, any other envelope ends it.
TripAfter(m) ==
    CASE m.type = "TICKET_CREATED" -> [step |-> 1, base |-> tickets]
      [] /\ m.type = "TICKET_UPDATED"
         /\ trip.step = 1
         /\ m.data.id = lastMessage.data.id -> [trip EXCEPT !.step = 2]
      [] /\ m.type = "TICKET_DELETED"
         /\ trip.step = 2
         /\ m.data.id = lastMessage.data.id -> [trip EXCEPT !.step = 3]
      [] OTHER -> NoTrip

\* The updater of the TICKET_UPDATED and TICKET_DELETED cases reads
\* ticket.id and message.data.id for each record: a TypeError when the
\* list is not empty and the data or a record of the list is undefined.
Throws(prev, m) ==
    /\ m.type \in {"TICKET_UPDATED", "TICKET_DELETED"}
    /\ Len(prev) > 0
    /\ \/ m.data = Undefined
       \/ \E i \in 1..Len(prev) : prev[i] = Undefined

\* The cases of the switch call setTickets; no other tag does.
CallsSetTickets(m) ==
    m.type \in {"TICKET_CREATED", "TICKET_UPDATED", "TICKET_DELETED"}

\* The onMessage callback of the dashboard is called with an envelope:
\* setTickets with the updater of the envelope's case.
OnMessage(m) ==
    /\ mounted
    /\ ~Throws(tickets, m)
    /\ Len(onMessage(tickets, m)) <= MaxTickets
    /\ tickets' = onMessage(tickets, m)
    /\ prevTickets' = tickets
    /\ lastMessage' = m
    /\ trip' = TripAfter(m)
    /\ renderPending' = (renderPending \/ CallsSetTickets(m))
    /\ UNCHANGED <<hookVars, isLoading, stopped, ioVars>>

\* onMessage is called with an envelope whose updater throws. React runs
\* the updater while rendering, outside the try of ws.onmessage; the error
\* leaves the render, the page is unmounted and the effect cleanup calls
\* disconnect(). The three are one step here.
OnMessageThrows(m) ==
    /\ mounted
    /\ Throws(tickets, m)
    /\ mounted' = FALSE
    /\ Install(disconnect(HookState))
    /\ stopped' = TRUE
    /\ prevTickets' = tickets
    /\ lastMessage' = m
    /\ trip' = NoTrip
    /\ UNCHANGED <<reconnectAttempts, renderedConnected, renderedAttempts,
                   tickets, isLoading, renderPending, ioVars>>

\* ws.onmessage of channel c: JSON.parse(event.data), then onMessage.
WsOnMessage(c, m) ==
    /\ channels[c].readyState = "OPEN"
    /\ OnMessage(m)

\* Faulty variant: ws.onmessage without its try / catch.
onmessageNoTry(thrown) == thrown

\* try { JSON.parse; onMessage?.(message) } catch { console.error }: whether
\* an exception thrown by onMessage leaves ws.onmessage.
onmessage(thrown) == FALSE

\* ws.onmessage of channel c, onMessage throws while it runs (the frame
\* "null" in the dashboard): no setTickets call was reached.
WsOnMessageCallbackThrows(c) ==
    /\ channels[c].readyState = "OPEN"
    /\ mounted
    /\ lastThrow' = [channel |-> c, escaped |-> onmessage(TRUE)]
    /\ lastMessage' = NullMessage
    /\ prevTickets' = tickets
    /\ trip' = NoTrip
    /\ UNCHANGED <<hookVars, tickets, isLoading, renderPending, stopped,
                   WS_URL, lastSend, firstRun, authVars, errorEvent,
                   TicketsPage>>

\* ws.onmessage of channel c, the envelope's updater throws.
WsOnMessageThrows(c, m) ==
    /\ channels[c].readyState = "OPEN"
    /\ OnMessageThrows(m)

\* ws.onmessage of channel c with text that is no JSON: JSON.parse throws,
\* the catch logs it, onMessage is not called.
WsOnMessageUnparsable(c) ==
    /\ channels[c].readyState = "OPEN"
    /\ UNCHANGED vars

\* fetchTickets: ticketsApi.getAll() resolved; setTickets(data) and, in the
\* finally block, setIsLoading(false).
FetchTicketsLoaded(data) ==
    /\ mounted
    /\ isLoading
    /\ tickets' = data
    /\ isLoading' = FALSE
    /\ prevTickets' = <<>>
    /\ lastMessage' = NoMessage
    /\ trip' = NoTrip
    /\ renderPending' = TRUE
    /\ UNCHANGED <<hookVars, stopped, ioVars>>

\* fetchTickets: no token, or the request failed; setIsLoading(false).
FetchTicketsFailed ==
    /\ mounted
    /\ isLoading
    /\ isLoading' = FALSE
    /\ renderPending' = TRUE
    /\ UNCHANGED <<hookVars, tickets, prevTickets, lastMessage, trip, stopped, ioVars>>

\* ------------------------------------------------------------------ axios
\* Faulty variant: the token is read once, when the instance is created.
requestInterceptorCached(token) ==
    [authorization |-> <<"Bearer ", CHOOSE t \in Tokens : TRUE>>]

\* The request interceptor: Authorization = `Bearer ${token}` when a token
\* is stored, no Authorization header otherwise.
requestInterceptor(token) ==
    IF token # NoToken
    THEN [authorization |-> <<"Bearer ", token>>]
    ELSE [authorization |-> NoHeader]

\* Faulty variant: 403 is handled like 401.
responseInterceptorForbidden(status, token, href) ==
    IF status \in {"401", "403"}
    THEN [authToken |-> NoToken, location |-> "/auth/login", rejected |-> TRUE]
    ELSE [authToken |-> token, location |-> href, rejected |-> TRUE]

\* The error handler of the response interceptor: on 401 remove the token
\* and set window.location.href; always Promise.reject(error).
responseInterceptor(status, token, href) ==
    IF status = "401"
    THEN [authToken |-> NoToken, location |-> "/auth/login", rejected |-> TRUE]
    ELSE [authToken |-> token, location |-> href, rejected |-> TRUE]

appRest == <<hookVars, pageVars, renderPending, stopped, WS_URL, lastSend,
             firstRun, errorEvent, lastThrow>>
axiosRest == <<appRest, TicketsPage>>

Answered(i) == SubSeq(requests, 1, i - 1) \o SubSeq(requests, i + 1, Len(requests))

\* A request is sent through axiosInstance: the request interceptor runs.
AxiosRequest ==
    /\ Len(requests) < MaxRequests
    /\ lastRequest' = requestInterceptor(authToken)
    /\ requests' = Append(requests, requestInterceptor(authToken))
    /\ UNCHANGED <<authToken, location, lastError, axiosRest>>

\* Request i succeeds: the response interceptor passes the response on.
AxiosResponse(i) ==
    /\ requests' = Answered(i)
    /\ UNCHANGED <<authToken, location, lastRequest, lastError, axiosRest>>

\* Request i fails with the given status: the error handler of the
\* response interceptor runs.
AxiosResponseError(i, status) ==
    /\ requests' = Answered(i)
    /\ LET r == responseInterceptor(status, authToken, location)
       IN /\ authToken' = r.authToken
          /\ location' = r.location
          /\ lastError' = [status |-> status, rejected |-> r.rejected]
    /\ UNCHANGED <<lastRequest, axiosRest>>

\* authApi.logout(): the token is removed.
Logout ==
    /\ authToken' = NoToken
    /\ UNCHANGED <<location, requests, lastRequest, lastError, axiosRest>>

\* handleLogout of the dashboard: the token is removed, the router goes to
\* the login page.
HandleLogout ==
    /\ authToken' = NoToken
    /\ location' = "/auth/login"
    /\ UNCHANGED <<requests, lastRequest, lastError, axiosRest>>

\* ------------------------------------------------------------ tickets page
\* Faulty variant: only the subject is required.
requiredMissingSubjectOnly(formData) == formData.subject = ""

\* !formData.subject || !formData.description
requiredMissing(formData) == formData.subject = "" \/ formData.description = ""

\* err.response?.data?.message || fallback
errorMessage(message, fallback) ==
    IF message \in {NoField, ""} THEN fallback ELSE message

\* The text each catch block falls back to.
Fallback(op) ==
    CASE op = "getAll" -> "Failed to load tickets"
      [] op = "create" -> "Failed to create ticket"
      [] op = "update" -> "Failed to update ticket"
      [] op = "delete" -> "Failed to delete ticket"

\* The statuses a failed request of the page is drawn from.
FailureStatus == {"401", "no response"}

\* The page is on screen: it is mounted and the browser has not left it.
OnTicketsPage == TicketsPage.mounted /\ location = "/tickets"

\* A handler of the page, left in state p, calls ticketsApi and awaits the
\* answer: the request goes through the request interceptor.
Send(p, call) ==
    /\ Len(requests) < MaxRequests
    /\ requests' = Append(requests, requestInterceptor(authToken))
    /\ lastRequest' = requestInterceptor(authToken)
    /\ TicketsPage' = [p EXCEPT !.calls = Append(@, call)]
    /\ UNCHANGED <<authToken, lastError>>

\* The awaited calls without call i.
Settled(i) ==
    SubSeq(TicketsPage.calls, 1, i - 1)
        \o SubSeq(TicketsPage.calls, i + 1, Len(TicketsPage.calls))

\* The user follows the link to /tickets on the dashboard: the dashboard
\* unmounts (its effect cleanup calls disconnect()), the tickets page mounts
\* and its effect runs fetchTickets, which sends GET /api/tickets when a
\* token is stored and goes to the login page otherwise.
OpenTicketsPage ==
    /\ mounted
    /\ location = "/dashboard"
    /\ mounted' = FALSE
    /\ Install(disconnect(HookState))
    /\ stopped' = TRUE
    /\ IF authToken = NoToken
       THEN /\ location' = "/auth/login"
            /\ TicketsPage' = [NewTicketsPage EXCEPT !.isLoading = FALSE]
            /\ UNCHANGED <<authToken, requests, lastRequest, lastError>>
       ELSE /\ location' = "/tickets"
            /\ Send(NewTicketsPage, [op |-> "getAll", id |-> 0, subject |-> ""])
    /\ UNCHANGED <<reconnectAttempts, renderedConnected, renderedAttempts,
                   pageVars, renderPending, WS_URL, lastSend, firstRun,
                   errorEvent, lastThrow>>

\* onChange of the subject and description inputs.
SetFormData(f) ==
    /\ OnTicketsPage
    /\ TicketsPage' = [TicketsPage EXCEPT !.formData = f]
    /\ UNCHANGED <<authVars, appRest>>

\* handleEditClick(ticket) for the ticket of row i; description stands for
\* ticket.description, which may be empty.
HandleEditClick(i, description) ==
    /\ OnTicketsPage
    /\ TicketsPage' =
           [TicketsPage EXCEPT
               !.selectedTicket = TicketsPage.tickets[i],
               !.formData = [subject |-> TicketsPage.tickets[i].subject,
                             description |-> description]]
    /\ UNCHANGED <<authVars, appRest>>

\* handleDeleteClick(ticket) for the ticket of row i.
HandleDeleteClick(i) ==
    /\ OnTicketsPage
    /\ TicketsPage' =
           [TicketsPage EXCEPT !.selectedTicket = TicketsPage.tickets[i]]
    /\ UNCHANGED <<authVars, appRest>>

\* handleCreateTicket up to its await; its button is disabled while
\* isSubmitting.
HandleCreateTicket ==
    /\ OnTicketsPage
    /\ ~TicketsPage.isSubmitting
    /\ IF requiredMissing(TicketsPage.formData)
       THEN /\ TicketsPage' =
                   [TicketsPage EXCEPT
                       !.error = "Please fill in all required fields"]
            /\ UNCHANGED <<authToken, requests, lastRequest, lastError>>
       ELSE Send([TicketsPage EXCEPT !.isSubmitting = TRUE, !.error = ""],
                 [op |-> "create", id |-> 0,
                  subject |-> TicketsPage.formData.subject])
    /\ UNCHANGED <<location, appRest>>

\* handleUpdateTicket up to its await; its button is disabled while
\* isSubmitting.
HandleUpdateTicket ==
    /\ OnTicketsPage
    /\ ~TicketsPage.isSubmitting
    /\ IF TicketsPage.selectedTicket = NoTicket
             \/ requiredMissing(TicketsPage.formData)
       THEN /\ TicketsPage' =
                   [TicketsPage EXCEPT
                       !.error = "Please fill in all required fields"]
            /\ UNCHANGED <<authToken, requests, lastRequest, lastError>>
       ELSE Send([TicketsPage EXCEPT !.isSubmitting = TRUE, !.error = ""],
                 [op |-> "update", id |-> TicketsPage.selectedTicket.id,
                  subject |-> TicketsPage.formData.subject])
    /\ UNCHANGED <<location, appRest>>

\* handleDeleteTicket up to its await; the button of the confirmation
\* dialog is not disabled while isSubmitting.
HandleDeleteTicket ==
    /\ OnTicketsPage
    /\ IF TicketsPage.selectedTicket = NoTicket
       THEN UNCHANGED <<TicketsPage, authToken, requests, lastRequest, lastError>>
       ELSE Send([TicketsPage EXCEPT !.isSubmitting = TRUE],
                 [op |-> "delete", id |-> TicketsPage.selectedTicket.id,
                  subject |-> ""])
    /\ UNCHANGED <<location, appRest>>

\* fetchTickets after ticketsApi.getAll() resolved with data.
GetAllResolved(i, data) ==
    /\ OnTicketsPage
    /\ TicketsPage.calls[i].op = "getAll"
    /\ requests' = Answered(i)
    /\ TicketsPage' = [TicketsPage EXCEPT !.tickets = data,
                                          !.isLoading = FALSE,
                                          !.calls = Settled(i)]
    /\ UNCHANGED <<authToken, location, lastRequest, lastError, appRest>>

\* handleCreateTicket after ticketsApi.create resolved with newTicket, which
\* has the subject of the payload and an id of its own.
CreateResolved(i, newTicket) ==
    /\ OnTicketsPage
    /\ TicketsPage.calls[i].op = "create"
    /\ newTicket.subject = TicketsPage.calls[i].subject
    /\ ~HasId(TicketsPage.tickets, newTicket.id)
    /\ requests' = Answered(i)
    /\ TicketsPage' = [TicketsPage EXCEPT !.tickets = <<newTicket>> \o @,
                                          !.formData = resetForm,
                                          !.isSubmitting = FALSE,
                                          !.calls = Settled(i)]
    /\ UNCHANGED <<authToken, location, lastRequest, lastError, appRest>>

\* handleUpdateTicket after ticketsApi.update resolved with the ticket of
\* the request's id and the subject of its payload.
UpdateResolved(i) ==
    /\ OnTicketsPage
    /\ TicketsPage.calls[i].op = "update"
    /\ requests' = Answered(i)
    /\ LET updatedTicket == [id |-> TicketsPage.calls[i].id,
                             subject |-> TicketsPage.calls[i].subject]
       IN TicketsPage' =
              [TicketsPage EXCEPT
                  !.tickets = [k \in 1..Len(@) |->
                                  IF @[k].id = updatedTicket.id
                                  THEN updatedTicket ELSE @[k]],
                  !.selectedTicket = NoTicket,
                  !.formData = resetForm,
                  !.isSubmitting = FALSE,
                  !.calls = Settled(i)]
    /\ UNCHANGED <<authToken, location, lastRequest, lastError, appRest>>

\* handleDeleteTicket after ticketsApi.delete resolved; selectedTicket is
\* the one the handler was created with.
DeleteResolved(i) ==
    /\ OnTicketsPage
    /\ TicketsPage.calls[i].op = "delete"
    /\ requests' = Answered(i)
    /\ TicketsPage' =
           [TicketsPage EXCEPT
               !.tickets = SelectSeq(@, LAMBDA t : t.id # TicketsPage.calls[i].id),
               !.selectedTicket = NoTicket,
               !.isSubmitting = FALSE,
               !.calls = Settled(i)]
    /\ UNCHANGED <<authToken, location, lastRequest, lastError, appRest>>

\* Call i fails with the given status and message: the response
\* interceptor runs, then the catch and finally blocks of the handler.
RequestRejected(i, status, message) ==
    /\ OnTicketsPage
    /\ status = "no response" => message = NoField
    /\ requests' = Answered(i)
    /\ LET r == responseInterceptor(status, authToken, location)
           op == TicketsPage.calls[i].op
           text == errorMessage(message, Fallback(op))
       IN /\ authToken' = r.authToken
          /\ location' = r.location
          /\ lastError' = [status |-> status, rejected |-> r.rejected]
          /\ TicketsPage' =
                 IF op = "getAll"
                 THEN [TicketsPage EXCEPT !.error = text,
                                          !.isLoading = FALSE,
                                          !.calls = Settled(i)]
                 ELSE [TicketsPage EXCEPT !.error = text,
                                          !.isSubmitting = FALSE,
                                          !.calls = Settled(i)]
    /\ UNCHANGED <<lastRequest, appRest>>

\* --------------------------------------------------------- specifications
Channels == 1..Len(channels)

LiveLists ==
    {l \in ServerLists : \A i \in 1..Len(l) : l[i] = [id |-> 1, subject |-> "A"]}

Next ==
    \/ \E c \in Channels : WsOnOpen(c)
    \/ \E c \in Channels : WsAbruptClose(c)
    \/ \E c \in Channels : WsClosed(c)
    \/ \E c \in Channels : ReconnectTimer(c)
    \/ \E c \in Channels : \E m \in LiveMessages : WsOnMessage(c, m)
    \/ \E data \in LiveLists : FetchTicketsLoaded(data)
    \/ FetchTicketsFailed
    \/ Render
    \/ Unmount

\* The dashboard page as written: it mounts the hook, renders, loads the
\* list, receives envelopes and unmounts; it never calls reconnect,
\* disconnect or sendMessage itself.
Spec == Init /\ [][Next]_vars

NextHook ==
    \/ \E c \in Channels : WsOnOpen(c)
    \/ \E c \in Channels : WsAbruptClose(c)
    \/ \E c \in Channels : WsClosed(c)
    \/ \E c \in Channels : ReconnectTimer(c)
    \/ Render
    \/ Reconnect
    \/ Disconnect
    \/ Unmount

\* The hook under a consumer that also calls the operations it returns.
SpecHook == Init /\ [][NextHook]_vars

NextAbrupt ==
    \/ \E c \in Channels : WsAbruptClose(c)
    \/ \E c \in Channels : WsClosed(c)
    \/ \E c \in Channels : ReconnectTimer(c)
    \/ \E data \in LiveLists : FetchTicketsLoaded(data)
    \/ FetchTicketsFailed
    \/ Render

\* The dashboard while the endpoint refuses every connection: no channel
\* opens and nobody calls connect() or disconnect() explicitly.
SpecAbrupt == Init /\ [][NextAbrupt]_vars

NextSend ==
    \/ \E c \in Channels : WsOnOpen(c)
    \/ \E c \in Channels : WsAbruptClose(c)
    \/ \E c \in Channels : WsClosed(c)
    \/ \E c \in Channels : ReconnectTimer(c)
    \/ Render
    \/ Disconnect
    \/ SendMessage

\* The hook under a consumer that sends messages and may disconnect.
SpecSend == Init /\ [][NextSend]_vars

NextAccepting ==
    \/ \E c \in Channels : WsOnOpen(c)
    \/ \E c \in Channels : WsClosed(c)
    \/ \E c \in Channels : ReconnectTimer(c)
    \/ \E data \in LiveLists : FetchTicketsLoaded(data)
    \/ FetchTicketsFailed
    \/ Render

\* The dashboard while the endpoint accepts every connection and never
\* drops one (a channel closes only when the hook itself closed it), over
\* an unbounded run: closed sockets are collected, every open and close
\* event arrives, every timer fires and every scheduled render runs.
SpecAcceptingFair ==
    /\ Init
    /\ [][NextAccepting \/ Collect]_vars
    /\ \A c \in 1..MaxChannels :
           /\ WF_vars(c \in Channels /\ WsOnOpen(c))
           /\ WF_vars(c \in Channels /\ WsClosed(c))
           /\ WF_vars(c \in Channels /\ ReconnectTimer(c))
    /\ WF_vars(Render)
    /\ WF_vars(Collect)
    /\ WF_vars(FetchTicketsFailed \/ \E data \in LiveLists : FetchTicketsLoaded(data))

\* The malformed envelopes about the one ticket of the channel.
LiveMalformed ==
    {m \in MalformedMessage :
        m.data \in {Undefined, [id |-> 1, subject |-> "A"]}}

NextFrames ==
    \/ \E c \in Channels : WsOnOpen(c)
    \/ \E c \in Channels : WsClosed(c)
    \/ \E c \in Channels : \E m \in LiveMessages \cup LiveMalformed :
           WsOnMessage(c, m)
    \/ \E c \in Channels : \E m \in LiveMessages \cup LiveMalformed :
           WsOnMessageThrows(c, m)
    \/ \E c \in Channels : WsOnMessageUnparsable(c)
    \/ Render

\* The dashboard while its list request is pending, with a remote source
\* that never drops a channel and also sends frames that are no JSON or no
\* well-formed envelope.
SpecFrames == Init /\ [][NextFrames]_vars

NextEnum ==
    \/ \E c \in Channels : WsOnOpen(c)
    \/ \E c \in Channels : WsClosed(c)
    \/ \E c \in Channels : \E m \in LiveMessages \cup OutOfEnumMessage :
           WsOnMessage(c, m)
    \/ Render

\* The dashboard while its list request is pending, with a remote source
\* that never drops a channel and also sends records whose status or
\* priority is no value of the enumerations.
SpecEnum == Init /\ [][NextEnum]_vars

NextAxios ==
    \/ AxiosRequest
    \/ \E i \in 1..Len(requests) : AxiosResponse(i)
    \/ \E i \in 1..Len(requests) : \E status \in ResponseStatus :
           AxiosResponseError(i, status)
    \/ Logout
    \/ HandleLogout

NextError ==
    \/ \E c \in Channels : WsOnOpen(c)
    \/ \E c \in Channels : WsOnError(c)
    \/ \E c \in Channels : WsAbruptClose(c)
    \/ \E c \in Channels : WsClosed(c)
    \/ \E c \in Channels : ReconnectTimer(c)
    \/ Render

\* The dashboard's hook over a network that also reports errors on its
\* channels; the list request stays pending.
SpecError == Init /\ [][NextError]_vars

NextThrow ==
    \/ \E c \in Channels : WsOnOpen(c)
    \/ \E c \in Channels : WsClosed(c)
    \/ \E c \in Channels : \E m \in LiveMessages : WsOnMessage(c, m)
    \/ \E c \in Channels : WsOnMessageCallbackThrows(c)
    \/ Render

\* The dashboard while its list request is pending, with a remote source
\* that never drops a channel and also sends the frame on which the
\* onMessage callback throws.
SpecThrow == Init /\ [][NextThrow]_vars

\* The lists GET /api/tickets answers the tickets page with: the tickets
\* as created, before any edit on the page.
PageLists ==
    {l \in ServerLists : \A k \in 1..Len(l) : l[k].subject = "A"}

PageCalls == 1..Len(TicketsPage.calls)
PageRows == 1..Len(TicketsPage.tickets)

NextTicketsPage ==
    \/ OpenTicketsPage
    \/ \E f \in FormData : SetFormData(f)
    \/ \E i \in PageRows : \E d \in {"", "text"} : HandleEditClick(i, d)
    \/ \E i \in PageRows : HandleDeleteClick(i)
    \/ HandleCreateTicket
    \/ HandleUpdateTicket
    \/ HandleDeleteTicket
    \/ \E i \in PageCalls : \E data \in PageLists : GetAllResolved(i, data)
    \/ \E i \in PageCalls : \E newTicket \in Ticket : CreateResolved(i, newTicket)
    \/ \E i \in PageCalls : UpdateResolved(i)
    \/ \E i \in PageCalls : DeleteResolved(i)
    \/ \E i \in PageCalls : \E status \in FailureStatus :
           \E message \in ResponseMessage : RequestRejected(i, status, message)

\* The tickets management page, opened from the dashboard: the user edits
\* the form, picks rows and submits; every request succeeds or fails.
SpecTicketsPage == Init /\ [][NextTicketsPage]_vars

\* The HTTP client alone: requests, failed responses and the two logouts.
SpecAxios == Init /\ [][NextAxios]_vars

NextReconciler ==
    \/ \E m \in WebSocketMessage : OnMessage(m)
    \/ \E data \in ServerLists : FetchTicketsLoaded(data)
    \/ FetchTicketsFailed

\* The ticket list alone: the initial load and every sequence of envelopes
\* handed to the onMessage callback.
SpecReconciler == Init /\ [][NextReconciler]_vars

\* ------------------------------------------------------------------ claims
LastId == lastMessage.data.id
Applied(type) == lastMessage.type = type
Live(c) == channels[c].readyState \in {"CONNECTING", "OPEN"}

\* C1: the ticket list never contains two records with the same id,
\* whatever envelopes were applied to a list that started duplicate-free.
C1_NoDuplicateIds == IsDuplicateFree(tickets)

\* C2: while every channel closes abruptly and connect() is never called
\* explicitly, at most maxReconnectAttempts channels are created after the
\* first one; once the budget is used up no reconnect timer is pending, and
\* isConnected stays false.
C2_ReconnectBounded ==
    /\ Len(channels) <= 1 + maxReconnectAttempts
    /\ reconnectAttempts <= maxReconnectAttempts
    /\ reconnectAttempts = maxReconnectAttempts =>
           \A c \in Channels : channels[c].timer # "pending"
    /\ ~isConnected

\* C3: a channel that is connecting or open is the one held in wsRef, so at
\* most one channel is live at any moment.
C3_AtMostOneLiveChannel == \A c \in Channels : Live(c) => wsRef = c

\* C4: after disconnect() and until the next explicit connect() no channel
\* is created, no reconnect timer fires, the close event of a channel that
\* disconnect() closed schedules no reconnect, and isConnected stays false.
C4_QuietAfterDisconnect ==
    [][(stopped /\ stopped') =>
          /\ Len(channels') = Len(channels)
          /\ \A c \in Channels :
                 /\ channels[c].timer = "pending" => channels'[c].timer # "fired"
                 /\ channels[c].timer # "pending" => channels'[c].timer # "pending"
          /\ ~isConnected']_vars

\* C5: connect() called while the channel in wsRef is connecting or open
\* creates no channel and changes no state.
C5_ConnectIdempotent ==
    [][(Reconnect /\ wsRef # 0 /\ Live(wsRef)) =>
          UNCHANGED <<channels, wsRef, reconnectTimeoutRef, isConnected,
                      reconnectAttempts>>]_vars

\* C6: TICKET_CREATED replaces a record with the same id in place (same
\* index, same length) and prepends the record otherwise.
C6_CreatedReplacesOrPrepends ==
    Applied("TICKET_CREATED") =>
        IF HasId(prevTickets, LastId)
        THEN /\ Len(tickets) = Len(prevTickets)
             /\ \A i \in 1..Len(prevTickets) :
                    tickets[i] = IF prevTickets[i].id = LastId
                                 THEN lastMessage.data ELSE prevTickets[i]
        ELSE tickets = <<lastMessage.data>> \o prevTickets

\* C7: TICKET_UPDATED for an id in the list puts the envelope's record at
\* every index that held that id; the length, the sequence of ids and every
\* other record are unchanged.
C7_UpdatedReplacesInPlace ==
    (Applied("TICKET_UPDATED") /\ HasId(prevTickets, LastId)) =>
        /\ Len(tickets) = Len(prevTickets)
        /\ \A i \in 1..Len(prevTickets) :
               /\ tickets[i].id = prevTickets[i].id
               /\ prevTickets[i].id = LastId => tickets[i] = lastMessage.data
               /\ prevTickets[i].id # LastId => tickets[i] = prevTickets[i]

\* An update changed a record of a list that also holds another id.
C7_Witness ==
    /\ Applied("TICKET_UPDATED")
    /\ HasId(prevTickets, LastId)
    /\ \E i \in 1..Len(prevTickets) : prevTickets[i].id # LastId
    /\ tickets # prevTickets

\* C8 as stated: TICKET_UPDATED for an id that is not in the list is an
\* upsert, the list contains the envelope's record afterwards.
C8_UpdatedUnknownUpserts ==
    (Applied("TICKET_UPDATED") /\ ~HasId(prevTickets, LastId)) =>
        \E i \in 1..Len(tickets) : tickets[i] = lastMessage.data

\* C8 amended: TICKET_UPDATED for an id that is not in the list adds no
\* record: the list has the same length and still holds no record with
\* that id.
C8_UpdatedUnknownDropped ==
    (Applied("TICKET_UPDATED") /\ ~HasId(prevTickets, LastId)) =>
        /\ Len(tickets) = Len(prevTickets)
        /\ ~HasId(tickets, LastId)

\* An update for an unknown id met a list with room left for one more record.
C8_Witness ==
    /\ Applied("TICKET_UPDATED")
    /\ ~HasId(prevTickets, LastId)
    /\ Len(prevTickets) < MaxTickets

\* C9: TICKET_UPDATED for an id that is not in the list leaves the list as
\* it was: same records, same order.
C9_UpdatedUnknownNoOp ==
    (Applied("TICKET_UPDATED") /\ ~HasId(prevTickets, LastId)) =>
        tickets = prevTickets

\* An update for an unknown id met a non-empty list.
C9_Witness ==
    /\ Applied("TICKET_UPDATED")
    /\ ~HasId(prevTickets, LastId)
    /\ Len(prevTickets) >= 1

\* The indexes of the records that a TICKET_DELETED for id keeps.
Kept(list, id) == {i \in 1..Len(list) : list[i].id # id}

\* C10: TICKET_DELETED leaves no record with the id, keeps every other
\* record in its relative order, changes nothing when the id is absent, and
\* applying the same envelope again changes nothing.
C10_DeletedRemovesIdempotent ==
    Applied("TICKET_DELETED") =>
        /\ ~HasId(tickets, LastId)
        /\ Len(tickets) = Cardinality(Kept(prevTickets, LastId))
        /\ \A i \in Kept(prevTickets, LastId) :
               tickets[Cardinality({j \in Kept(prevTickets, LastId) : j <= i})]
                   = prevTickets[i]
        /\ ~HasId(prevTickets, LastId) => tickets = prevTickets
        /\ onMessage(tickets, lastMessage) = tickets

\* A delete removed a record from between or beside records that stay.
C10_Witness ==
    /\ Applied("TICKET_DELETED")
    /\ HasId(prevTickets, LastId)
    /\ Len(tickets) >= 1
    /\ Len(tickets) < Len(prevTickets)

\* The number of records with the id in the list.
CountId(list, id) == Cardinality({i \in 1..Len(list) : list[i].id = id})

\* C11: TICKET_CREATED for X followed at once by TICKET_UPDATED for X leaves
\* exactly one record X, the updated one, at the index where the created
\* envelope placed it (the head of the list).
C11_CreatedThenUpdated ==
    trip.step = 2 =>
        /\ CountId(tickets, LastId) = 1
        /\ tickets[1] = lastMessage.data

\* C12: on a list without X, TICKET_CREATED, TICKET_UPDATED and
\* TICKET_DELETED for X in a row give back the list they started from.
C12_RoundTrip ==
    (trip.step = 3 /\ ~HasId(trip.base, LastId)) => tickets = trip.base

\* The round trip ran on a non-empty list without X and changed X on the way.
C12_Witness ==
    /\ trip.step = 3
    /\ ~HasId(trip.base, LastId)
    /\ Len(trip.base) >= 1
    /\ \E i \in 1..Len(prevTickets) :
           prevTickets[i].id = LastId /\ prevTickets[i].subject = "A2"

\* An envelope that is neither well-formed nor the initial value.
IsMalformed(m) == m \notin WebSocketMessage \cup {NoMessage}

\* C13: the delivery of a malformed frame (no JSON, unknown tag, data
\* missing) leaves the ticket list as it is and does not close the channel,
\* neither at once nor by scheduling the render whose effect closes it.
C13_MalformedFrameIgnored ==
    [][\A c \in Channels :
          /\ WsOnMessageUnparsable(c) => UNCHANGED <<tickets, channels>>
          /\ \A m \in LiveMalformed :
                 (WsOnMessage(c, m) \/ WsOnMessageThrows(c, m)) =>
                     /\ tickets' = tickets
                     /\ channels' = channels
                     /\ renderPending' = renderPending]_vars

\* C14: onMessage is only ever called with a well-formed envelope.
C14_OnlyWellFormedForwarded == ~IsMalformed(lastMessage)

\* C15: sendMessage transmits exactly when the channel held in wsRef is
\* open; otherwise it only warns; in both cases it changes nothing of the
\* hook or the page and keeps nothing to send later.
C15_SendOnlyWhenOpen ==
    [][SendMessage =>
          /\ lastSend'.did \in {"sent", "warned"}
          /\ lastSend'.did = "sent" <=>
                 (wsRef # 0 /\ channels[wsRef].readyState = "OPEN")
          /\ UNCHANGED <<hookVars, pageVars, renderPending, stopped>>]_vars

\* A message was dropped although wsRef held a channel (still connecting),
\* and that channel is open now: nothing was kept for it.
C15_Witness ==
    /\ lastSend = [did |-> "warned", ready |-> "CONNECTING"]
    /\ wsRef # 0
    /\ channels[wsRef].readyState = "OPEN"

\* C16: without WS_URL no connect() creates a channel or schedules a timer,
\* and the counter and isConnected keep their initial values.
C16_NoUrlNoChannel ==
    WS_URL = "" =>
        /\ channels = <<>>
        /\ wsRef = 0
        /\ reconnectTimeoutRef = 0
        /\ ~isConnected
        /\ reconnectAttempts = 0

\* Without WS_URL the page has loaded and rendered again: the effect of
\* that render called connect() a second time.
C16_Witness ==
    /\ WS_URL = ""
    /\ mounted
    /\ ~isLoading
    /\ ~RenderDue

\* C17: an explicit connect() after disconnect() resets the attempt counter
\* to zero, and the channel it creates starts with a fresh reconnect budget.
C17_ExplicitConnectResets ==
    [][(Reconnect /\ stopped /\ WS_URL # "") =>
          /\ reconnectAttempts' = 0
          /\ channels'[wsRef'].attempts = 0]_vars

\* C18: the open of a channel resets the attempt counter to zero, and the
\* abrupt close of an open channel (disconnect() not called) schedules a
\* reconnect again.
C18_OpenRestoresBudget ==
    [][\A c \in Channels :
          /\ (WsOnOpen(c) /\ mounted) => reconnectAttempts' = 0
          /\ (WsAbruptClose(c) /\ channels[c].readyState = "OPEN"
                  /\ mounted /\ ~stopped) =>
                 channels'[c].timer = "pending"]_vars

\* C19: an abrupt close while the attempt counter is below
\* maxReconnectAttempts (disconnect() not called) schedules the reconnect
\* timer of that channel and creates no channel itself; the timer, when it
\* fires, adds one to the counter and creates one channel.
C19_OneScheduledReconnect ==
    [][\A c \in Channels :
          /\ (WsAbruptClose(c) /\ mounted /\ ~stopped
                  /\ reconnectAttempts < maxReconnectAttempts) =>
                 /\ channels'[c].timer = "pending"
                 /\ Len(channels') = Len(channels)
          /\ (ReconnectTimer(c) /\ mounted) =>
                 /\ reconnectAttempts' = reconnectAttempts + 1
                 /\ Len(channels') = Len(channels) + 1]_vars

\* C20: while the hook is mounted, isConnected is true exactly when the
\* channel held in wsRef is open.
C20_StatusReflectsChannel ==
    mounted => (isConnected <=> readyState(HookState) = "OPEN")

\* C21: under an endpoint that accepts every connection and keeps it open
\* (no failure at all, fewer than maxReconnectAttempts), the hook eventually
\* has isConnected = true and keeps it. Runs that end at the channel bound,
\* where no channel can be created any more, are left out.
C21_EventuallyStaysConnected ==
    (WS_URL # "" /\ []<>(Len(channels) < MaxChannels)) => <>[]isConnected

\* The three updaters of the switch, written out once more for one envelope:
\* a created ticket is put in front, an updated one replaces the records
\* with its id, a deleted one is removed.
Reconciled(list, m) ==
    CASE m.type = "TICKET_CREATED" -> <<m.data>> \o list
      [] m.type = "TICKET_UPDATED" ->
             [i \in 1..Len(list) |->
                 IF list[i].id = m.data.id THEN m.data ELSE list[i]]
      [] m.type = "TICKET_DELETED" ->
             SelectSeq(list, LAMBDA t : t.id # m.data.id)

InEnumeration(t) ==
    /\ "status" \in DOMAIN t => t.status \in TicketStatus
    /\ "priority" \in DOMAIN t => t.priority \in TicketPriority

\* C23: no record with a status or priority outside the enumerations is
\* ever in the ticket list.
C23_NoOutOfEnumRecord ==
    \A i \in 1..Len(tickets) : InEnumeration(tickets[i])

C25_OnlyUnauthorizedLogsOut ==
    [][\A i \in 1..Len(requests) : \A status \in ResponseStatus :
          AxiosResponseError(i, status) =>
              /\ lastError' = [status |-> status, rejected |-> TRUE]
              /\ IF status = "401"
                 THEN authToken' = NoToken /\ location' = "/auth/login"
                 ELSE authToken' = authToken /\ location' = location]_vars

\* A request that carried the token failed with 401: token gone, location
\* at the login page, error rejected.
C25_Witness ==
    /\ lastRequest.authorization = <<"Bearer ", "t1">>
    /\ lastError = [status |-> "401", rejected |-> TRUE]
    /\ authToken = NoToken
    /\ location = "/auth/login"

\* C26: a request carries Authorization "Bearer <token>" with the token
\* stored when it is issued, and no Authorization header when none is
\* stored.
C26_BearerOfStoredToken ==
    [][AxiosRequest =>
          /\ IF authToken \in Tokens
             THEN lastRequest'.authorization = <<"Bearer ", authToken>>
             ELSE lastRequest'.authorization = NoHeader
          /\ requests' = Append(requests, lastRequest')]_vars

\* A request issued after a 401 removed the token has no Authorization
\* header, while one issued before it still waits with the token.
C26_Witness ==
    /\ lastError.status = "401"
    /\ authToken = NoToken
    /\ requests = <<[authorization |-> <<"Bearer ", "t1">>],
                    [authorization |-> NoHeader]>>

\* C27: a render of the dashboard leaves the channels as they are, and an
\* open channel stops being open only by its own abrupt close or by the
\* unmount of the page (the dashboard never calls disconnect() itself).
C27_RenderKeepsChannel ==
    [][/\ Render => (channels' = channels /\ wsRef' = wsRef)
       /\ \A c \in Channels :
              (channels[c].readyState = "OPEN"
                   /\ channels'[c].readyState # "OPEN") =>
                  (WsAbruptClose(c) \/ Unmount)]_vars

\* The channels whose onmessage handler can still be called.
OpenChannels == {c \in Channels : channels[c].readyState = "OPEN"}

\* C28: at no time is more than one channel open and feeding the list.
C28_OneFeedingChannel == Cardinality(OpenChannels) <= 1

\* C29: the close handler schedules a reconnect exactly when the attempt
\* counter, as it is at the time of the close, is below
\* maxReconnectAttempts; the channel a reconnect timer creates sees the
\* counter the timer has just incremented.
C29_CloseReadsCurrentCounter ==
    [][\A c \in Channels :
          /\ ((WsAbruptClose(c) \/ WsClosed(c)) /\ mounted) =>
                 (channels'[c].timer = "pending" <=>
                      reconnectAttempts < maxReconnectAttempts)
          /\ (ReconnectTimer(c) /\ mounted) =>
                 channels'[Len(channels')].attempts = reconnectAttempts']_vars

\* C30: the attempt counter stays between 0 and maxReconnectAttempts.
C30_CounterInRange ==
    reconnectAttempts >= 0 /\ reconnectAttempts <= maxReconnectAttempts

\* The channels whose close handler set a reconnect timer that has neither
\* fired nor been cleared.
PendingTimers == {c \in Channels : channels[c].timer = "pending"}

\* C31: at most one reconnect timer is pending and reconnectTimeoutRef holds
\* it, so the clearTimeout of disconnect() leaves no timer pending: after
\* disconnect() (called by the consumer or by the unmount cleanup) no
\* reconnect timer is pending.
C31_RefHoldsThePendingTimer ==
    [][/\ Cardinality(PendingTimers') <= 1
       /\ PendingTimers' \subseteq {reconnectTimeoutRef'}
       /\ (Disconnect \/ Unmount) =>
              \A c \in Channels : channels'[c].timer # "pending"]_vars

\* The list shows what envelope m said about its ticket: a created or
\* updated record is in the list as the envelope gave it, a deleted one is
\* not in the list.
Reflects(list, m) ==
    CASE m.type = "TICKET_CREATED" -> \E i \in 1..Len(list) : list[i] = m.data
      [] m.type = "TICKET_UPDATED" ->
             \A i \in 1..Len(list) : list[i].id = m.data.id => list[i] = m.data
      [] m.type = "TICKET_DELETED" -> ~HasId(list, m.data.id)

\* C32: the initial load and the channel neither lose nor duplicate a
\* change: when the list response is installed after an envelope was
\* applied, the list still shows what the envelope said; and a
\* TICKET_CREATED for a ticket the installed response contains leaves that
\* ticket in the list once.
C32_LoadAndPushAgree ==
    [][/\ \A data \in LiveLists :
              (FetchTicketsLoaded(data) /\ lastMessage \in LiveMessages) =>
                  Reflects(tickets', lastMessage)
       /\ \A c \in Channels : \A m \in LiveMessages :
              (/\ WsOnMessage(c, m)
               /\ m.type = "TICKET_CREATED"
               /\ ~isLoading
               /\ lastMessage = NoMessage
               /\ HasId(tickets, m.data.id)) =>
                  CountId(tickets', m.data.id) = 1]_vars

\* C33: the error event of a channel changes nothing in the hook: its
\* handler hands the event to onError and leaves isConnected, the attempt
\* counter, the channels, wsRef and the reconnect timer as they were.
C33_ErrorEventChangesNothing ==
    [][\A c \in Channels :
          WsOnError(c) =>
              /\ errorEvent' = c
              /\ UNCHANGED <<isConnected, reconnectAttempts, channels, wsRef,
                             reconnectTimeoutRef>>]_vars

\* An open channel reported an error, the hook is still connected on it and
\* a reconnect timer of an earlier channel is still pending.
C33_Witness ==
    /\ errorEvent # 0
    /\ errorEvent = wsRef
    /\ channels[errorEvent].readyState = "OPEN"
    /\ isConnected
    /\ \E c \in Channels : channels[c].timer = "pending"

\* C34: an exception thrown by onMessage while ws.onmessage calls it does
\* not leave the handler; the channel stays open, isConnected, the attempt
\* counter and the list are unchanged and the page stays mounted, so the
\* next frame of the channel reaches onMessage.
C34_CallbackThrowIsCaught ==
    [][\A c \in Channels :
          WsOnMessageCallbackThrows(c) =>
              /\ lastThrow' = [channel |-> c, escaped |-> FALSE]
              /\ channels'[c].readyState = "OPEN"
              /\ mounted'
              /\ UNCHANGED <<isConnected, reconnectAttempts, channels, wsRef,
                             reconnectTimeoutRef, tickets>>]_vars

\* onMessage threw on a channel, and a frame that channel delivered
\* afterwards was applied to the list while the hook stayed connected.
C34_Witness ==
    /\ lastThrow.channel # 0
    /\ lastThrow.channel = wsRef
    /\ channels[wsRef].readyState = "OPEN"
    /\ isConnected
    /\ lastMessage \in LiveMessages
    /\ tickets # prevTickets

\* C35: on the tickets page the list changes only when an awaited request
\* succeeded. A failed create, update or delete leaves the list as it was,
\* sets a non-empty error and ends with isSubmitting false; a successful
\* create prepends the new ticket, a successful update replaces the ticket
\* in place, a successful delete removes it, each ending with isSubmitting
\* false; create and update with an empty subject or description send no
\* request and leave the list and isSubmitting as they were.
C35_ListFollowsTheRequest ==
    [][LET p == TicketsPage
           q == TicketsPage'
           Incomplete == p.formData.subject = "" \/ p.formData.description = ""
       IN /\ \A i \in PageCalls :
                 LET call == p.calls[i]
                 IN /\ \A status \in FailureStatus : \A message \in ResponseMessage :
                           (RequestRejected(i, status, message) /\ call.op # "getAll") =>
                               /\ q.tickets = p.tickets
                               /\ q.error # ""
                               /\ ~q.isSubmitting
                    /\ \A newTicket \in Ticket :
                           CreateResolved(i, newTicket) =>
                               /\ Len(q.tickets) = Len(p.tickets) + 1
                               /\ q.tickets[1].subject = call.subject
                               /\ \A k \in 1..Len(p.tickets) :
                                      q.tickets[k + 1] = p.tickets[k]
                               /\ ~q.isSubmitting
                    /\ UpdateResolved(i) =>
                           /\ Len(q.tickets) = Len(p.tickets)
                           /\ \A k \in 1..Len(p.tickets) :
                                  /\ q.tickets[k].id = p.tickets[k].id
                                  /\ p.tickets[k].id = call.id =>
                                         q.tickets[k].subject = call.subject
                                  /\ p.tickets[k].id # call.id =>
                                         q.tickets[k] = p.tickets[k]
                           /\ ~q.isSubmitting
                    /\ DeleteResolved(i) =>
                           /\ ~HasId(q.tickets, call.id)
                           /\ Len(q.tickets) = Cardinality(Kept(p.tickets, call.id))
                           /\ \A k \in 1..Len(q.tickets) :
                                  \E j \in k..Len(p.tickets) : q.tickets[k] = p.tickets[j]
                           /\ ~q.isSubmitting
          /\ ((HandleCreateTicket \/ HandleUpdateTicket) /\ Incomplete) =>
                 /\ requests' = requests
                 /\ q.calls = p.calls
                 /\ q.tickets = p.tickets
                 /\ ~q.isSubmitting
          /\ q.tickets # p.tickets =>
                 /\ Len(q.calls) < Len(p.calls)
                 /\ lastError' = lastError]_vars

\* A create and an update succeeded (the new ticket leads the list, the
\* older one carries the edited subject), then a delete failed: the list is
\* whole, the error of the delete is shown and nothing is being submitted.
C35_Witness ==
    /\ TicketsPage.mounted
    /\ TicketsPage.error = "Failed to delete ticket"
    /\ TicketsPage.tickets = <<[id |-> 2, subject |-> "A2"],
                               [id |-> 1, subject |-> "A2"]>>
    /\ ~TicketsPage.isSubmitting
    /\ TicketsPage.calls = <<>>

====
